---- MODULE Spec2Model ----
(***************************************************************************)
(* A model of the kioku memory arena (src/src/lib.rs).                     *)
(*                                                                         *)
(* The state is one Arena value: its block list, its three configuration   *)
(* fields and its two statistics counters.  On top of that the model keeps *)
(* two history variables: `spans`, the spans handed out since the arena    *)
(* was last empty, and `last`, a description of the most recent call.      *)
(*                                                                         *)
(* A block is a Vec<MaybeUninit<u8>>: a base address chosen by the global  *)
(* allocator (nondeterministic here), a capacity and a length.  Blocks are *)
(* kept in a sequence whose first element is the front of the LinkedList.  *)
(***************************************************************************)
EXTENDS Integers, Sequences, FiniteSets

VARIABLES
    blocks,                 \* Arena.blocks, front first
    min_block_size,         \* Arena.min_block_size
    growth_strategy,        \* Arena.growth_strategy
    max_waste_percentage,   \* Arena.max_waste_percentage
    stat_space_occupied,    \* Arena.stat_space_occupied
    stat_space_allocated,   \* Arena.stat_space_allocated
    spans,                  \* history: spans returned since the last clear
    last                    \* history: the most recent call and its outcome

vars == <<blocks, min_block_size, growth_strategy, max_waste_percentage,
          stat_space_occupied, stat_space_allocated, spans, last>>

config == <<min_block_size, growth_strategy, max_waste_percentage>>

-----------------------------------------------------------------------------
(* Bounds and input sets *)

\* The number of successful allocation requests between two clears.
MaxAllocs == 3

\* The same, in the big_alloc_01 scenario.
MaxBigAllocs == 4

\* The largest address and the largest alignment (as a power of two) that
\* alignment_offset is applied to on its own.
MaxAddr == 255
MaxAlignmentLog == 7

\* Element types T of the typed methods: size_of::<T>() and align_of::<T>().
\* () and char.
Types == { [size |-> 0, align |-> 1],
           [size |-> 4, align |-> 4] }

\* Array lengths passed to the array methods.
Lens == {0, 64}

\* `align` arguments passed to the *_align methods: 0 and 6 are malformed, 2
\* is below the natural alignment of char, 8 above it.
Aligns == {0, 2, 6, 8}

\* Base addresses the global allocator may hand out for a new block: one
\* aligned to 16, one odd.  Only the residue of an address modulo the
\* alignments matters here, so two blocks may carry the same number; a block
\* is identified by its id.
BaseAddrs == {16, 17}

\* Arguments passed to the builder methods.  A block of 10 bytes is left with
\* 20 or 30 percent unused by two chars, on either side of the default
\* max_waste_percentage.
BlockSizeArgs == {0, 10, 64}
WasteArgs == {0, 100}
Constant == [kind |-> "Constant", perc |-> 0]
Percentage(p) == [kind |-> "Percentage", perc |-> p]
StrategyArgs == {Constant, Percentage(50)}

-----------------------------------------------------------------------------
(* Helpers of std used by the code *)

Max(a, b) == IF a >= b THEN a ELSE b
Min(a, b) == IF a <= b THEN a ELSE b

RECURSIVE is_power_of_two(_)
is_power_of_two(n) ==
    IF n <= 0 THEN FALSE
    ELSE IF n = 1 THEN TRUE
    ELSE n % 2 = 0 /\ is_power_of_two(n \div 2)

\* Layout::new::<T>()
LayoutNew(T) == [size |-> T.size, align |-> T.align]
\* Layout::array::<T>(len)
LayoutArray(T, len) == [size |-> T.size * len, align |-> T.align]
\* Layout::align_to(align)
AlignTo(layout, align) == [size |-> layout.size, align |-> Max(layout.align, align)]

\* Vec::with_capacity(capacity): an empty vector; a vector of capacity 0 does
\* not allocate and its pointer is the dangling address 1.
VecWithCapacity(capacity, addr, id, shared) ==
    [id |-> id, addr |-> IF capacity = 0 THEN 1 ELSE addr,
     capacity |-> capacity, len |-> 0, shared |-> shared]

-----------------------------------------------------------------------------
(* alloc_raw *)

\* Mutant of alignment_offset: the outer remainder is missing.
alignment_offset_unwrapped(addr, alignment) == alignment - (addr % alignment)

alignment_offset(addr, alignment) == (alignment - (addr % alignment)) % alignment

\* The block list and the occupied counter after "Add the first block if
\* we're empty".
\* Mutant of with_first_block: the first block has the block size of
\* Arena::new() whatever the configured min_block_size.
with_first_block_of_default_size(bs, addr0) ==
    IF bs = <<>>
    THEN <<VecWithCapacity(1024, addr0, 1, TRUE)>>
    ELSE bs

with_first_block(bs, addr0) ==
    IF bs = <<>>
    THEN <<VecWithCapacity(min_block_size, addr0, 1, TRUE)>>
    ELSE bs

\* Mutant of occupied_with_first_block: the first block is not counted.
occupied_without_first_block(bs) == stat_space_occupied

occupied_with_first_block(bs) ==
    IF bs = <<>> THEN stat_space_occupied + min_block_size ELSE stat_space_occupied

start_index_proposal(cur_block, alignment) ==
    cur_block.len + alignment_offset(cur_block.addr + cur_block.len, alignment)

fits_in_current(cur_block, size, alignment) ==
    (start_index_proposal(cur_block, alignment) + size) <= cur_block.capacity

\* Mutant of new_len: the bump is forgotten.
new_len_stale(cur_block, size, alignment) == cur_block.len

new_len(cur_block, size, alignment) ==
    Max(start_index_proposal(cur_block, alignment) + size, cur_block.len)

\* The slow path divides by min_block_size (Percentage), by the front block's
\* capacity and by the occupied counter: a zero divisor panics.
slow_path_panics(cur_block, occupied) ==
    \/ growth_strategy.kind = "Percentage" /\ min_block_size = 0
    \/ cur_block.capacity = 0
    \/ occupied = 0

next_shared_size(occupied) ==
    IF growth_strategy.kind = "Constant"
    THEN min_block_size
    ELSE LET a == (occupied \div 100) * growth_strategy.perc
             b == a % min_block_size
         IN  Max(min_block_size, a - b)

waste_percentage(block, occupied, allocated) ==
    LET w1 == ((block.capacity - block.len) * 100) \div block.capacity
        w2 == ((occupied - allocated) * 100) \div occupied
    IN  Min(w1, w2)

\* Mutant of is_shared_block: the threshold of Arena::new() whatever the
\* configured max_waste_percentage.
is_shared_block_default_waste(size, alignment, nss, waste) ==
    (size + alignment) <= nss /\ waste <= 20

is_shared_block(size, alignment, nss, waste) ==
    (size + alignment) <= nss /\ waste <= max_waste_percentage

\* Mutant of new_block_size: a standalone block sized for the padding only.
new_block_size_padding_only(is_shared, nss, size, alignment) ==
    IF is_shared THEN nss ELSE alignment - 1

\* Mutant of new_block_size: a standalone block with no room for padding.
new_block_size_unpadded(is_shared, nss, size, alignment) ==
    IF is_shared THEN nss ELSE size

new_block_size(is_shared, nss, size, alignment) ==
    IF is_shared THEN nss ELSE size + alignment - 1

\* The new block, already bumped.
bumped_new_block(bs, is_shared, capacity, addr, size, alignment) ==
    LET fresh == VecWithCapacity(capacity, addr, Len(bs) + 1, is_shared)
        start_index == alignment_offset(fresh.addr, alignment)
    IN  [fresh EXCEPT !.len = start_index + size]

\* Mutant of push_new_block: a shared block takes the place of the front
\* block instead of being pushed in front of it.
push_new_block_replacing(bs, is_shared, capacity, addr, size, alignment) ==
    LET nb == bumped_new_block(bs, is_shared, capacity, addr, size, alignment)
    IN  IF is_shared THEN <<nb>> \o Tail(bs) ELSE Append(bs, nb)

\* Mutant of push_new_block: every new block is pushed to the front.
push_new_block_front(bs, is_shared, capacity, addr, size, alignment) ==
    <<bumped_new_block(bs, is_shared, capacity, addr, size, alignment)>> \o bs

\* blocks.push_front / blocks.push_back of the new block.
push_new_block(bs, is_shared, capacity, addr, size, alignment) ==
    LET nb == bumped_new_block(bs, is_shared, capacity, addr, size, alignment)
    IN  IF is_shared THEN <<nb>> \o bs ELSE Append(bs, nb)

\* Mutant of is_zero_sized: the special case is missing.
is_zero_sized_never(size) == FALSE

\* "If we're zero-sized, just put us at the start of the current block."
is_zero_sized(size) == size = 0

\* What alloc_raw returns: the block list and counters it leaves, how it
\* ended, and the span (block, start) and address it hands out.
Ret(bs, occupied, allocated, outcome, path, block, start) ==
    [blocks |-> bs, occupied |-> occupied, allocated |-> allocated,
     outcome |-> outcome, path |-> path,
     block |-> block.id, start |-> start, addr |-> block.addr + start]

zero_sized_alloc(bs, occupied) ==
    Ret(bs, occupied, stat_space_allocated, "ok", "zero", Head(bs), 0)

\* "If it will fit in the current block, use the current block."
fast_alloc(bs, occupied, size, alignment) ==
    LET cur == Head(bs)
    IN  Ret(<<[cur EXCEPT !.len = new_len(cur, size, alignment)]>> \o Tail(bs),
            occupied, stat_space_allocated + size, "ok", "fast",
            cur, start_index_proposal(cur, alignment))

\* "If it won't fit in the current block, create a new block and use that."
slow_alloc(bs, occupied, size, alignment, addr1) ==
    LET nss == next_shared_size(occupied)
        waste == waste_percentage(Head(bs), occupied, stat_space_allocated)
        shared == is_shared_block(size, alignment, nss, waste)
        nbs == new_block_size(shared, nss, size, alignment)
        bs2 == push_new_block(bs, shared, nbs, addr1, size, alignment)
        nb == CHOOSE b \in {bs2[i] : i \in DOMAIN bs2} : b.id = Len(bs) + 1
    IN  Ret(bs2, occupied + nbs, stat_space_allocated + size, "ok",
            IF shared THEN "shared" ELSE "standalone",
            nb, alignment_offset(nb.addr, alignment))

\* The whole of alloc_raw as a function of the arena's state.  addr0 and addr1
\* are the addresses the allocator gives to the first block and to the new
\* block, when the call creates them.
alloc_raw(layout, addr0, addr1) ==
    LET alignment == layout.align
        size == layout.size
        bs1 == with_first_block(blocks, addr0)
        occ1 == occupied_with_first_block(blocks)
    IN  IF is_zero_sized(size) THEN zero_sized_alloc(bs1, occ1)
        ELSE IF fits_in_current(Head(bs1), size, alignment)
             THEN fast_alloc(bs1, occ1, size, alignment)
        ELSE IF slow_path_panics(Head(bs1), occ1)
             THEN [Ret(bs1, occ1, stat_space_allocated, "DivideByZero", "none",
                       Head(bs1), 0) EXCEPT !.block = 0, !.addr = 0]
        ELSE slow_alloc(bs1, occ1, size, alignment, addr1)

-----------------------------------------------------------------------------
(* Actions *)

\* The description of a call kept in `last`: the method, how it ended, the
\* path alloc_raw took, the layout asked for, the address returned, and
\* whether T was zero-sized and the `align` argument malformed.
Call(op, outcome, path, layout, addr, zst, malformed, how) ==
    [op |-> op, outcome |-> outcome, path |-> path,
     size |-> layout.size, align |-> layout.align, addr |-> addr,
     zst |-> zst, malformed |-> malformed,
     custom |-> how.custom, nat |-> how.nat, req |-> how.req]

\* How a method was called: whether it takes an alignment parameter, the
\* alignment requested through it, and the natural alignment of T.
Natural(T) == [custom |-> FALSE, nat |-> T.align, req |-> 1]
Custom(T, align) == [custom |-> TRUE, nat |-> T.align, req |-> align]

NoLayout == [size |-> 0, align |-> 1]

Other(op, outcome) ==
    Call(op, outcome, "none", NoLayout, 0, FALSE, FALSE, Natural(NoLayout))

\* A call that panics on one of the asserts in front of alloc_raw: the arena
\* behind &self is untouched.
Rejected(outcome, zst, malformed, how) ==
    /\ last' = Call("alloc", outcome, "none", NoLayout, 0, zst, malformed, how)
    /\ UNCHANGED <<blocks, config, stat_space_occupied, stat_space_allocated, spans>>

\* The allocator is asked for an address only when a block is created.
FirstBlockAddrs == IF blocks = <<>> THEN BaseAddrs ELSE {0}

NewBlockAddrs(layout, addr0) ==
    LET cur == Head(with_first_block(blocks, addr0))
    IN  IF layout.size = 0 \/ fits_in_current(cur, layout.size, layout.align)
        THEN {0}
        ELSE BaseAddrs

\* A call that reaches alloc_raw with `layout`.
Raw(layout, zst, malformed, how) ==
    \E addr0 \in FirstBlockAddrs :
    \E addr1 \in NewBlockAddrs(layout, addr0) :
        LET r == alloc_raw(layout, addr0, addr1)
        IN  /\ blocks' = r.blocks
            /\ stat_space_occupied' = r.occupied
            /\ stat_space_allocated' = r.allocated
            /\ spans' = IF r.outcome = "ok"
                        THEN Append(spans, [block |-> r.block, start |-> r.start,
                                            size |-> layout.size])
                        ELSE spans
            /\ last' = Call("alloc", r.outcome, r.path, layout, r.addr, zst, malformed, how)
            /\ UNCHANGED config

\* assert!(size_of::<T>() > 0)
unsupported_type(T) == ~(T.size > 0)

\* assert!(align.is_power_of_two())
invalid_alignment(align) == ~is_power_of_two(align)

\* Mutant of alloc_array_uninit: the size_of assert is missing.
alloc_array_uninit_unchecked(T, len) ==
    Raw(LayoutArray(T, len), T.size = 0, FALSE, Natural(T))

\* Mutant of alloc_align_uninit: the is_power_of_two assert is missing.
alloc_align_uninit_unchecked(T, align) ==
    IF unsupported_type(T)
    THEN Rejected("UnsupportedType", T.size = 0, ~is_power_of_two(align),
                  Custom(T, align))
    ELSE Raw(AlignTo(LayoutNew(T), align), T.size = 0, ~is_power_of_two(align),
             Custom(T, align))

\* alloc / alloc_uninit
alloc_uninit(T) ==
    IF unsupported_type(T) THEN Rejected("UnsupportedType", T.size = 0, FALSE, Natural(T))
    ELSE Raw(LayoutNew(T), T.size = 0, FALSE, Natural(T))

\* alloc_array / copy_slice / copy_str / alloc_array_uninit
alloc_array_uninit(T, len) ==
    IF unsupported_type(T) THEN Rejected("UnsupportedType", T.size = 0, FALSE, Natural(T))
    ELSE Raw(LayoutArray(T, len), T.size = 0, FALSE, Natural(T))

\* alloc_align / alloc_align_uninit
alloc_align_uninit(T, align) ==
    IF unsupported_type(T)
    THEN Rejected("UnsupportedType", T.size = 0, ~is_power_of_two(align),
                  Custom(T, align))
    ELSE IF invalid_alignment(align)
    THEN Rejected("InvalidAlignment", T.size = 0, ~is_power_of_two(align),
                  Custom(T, align))
    ELSE Raw(AlignTo(LayoutNew(T), align), T.size = 0, ~is_power_of_two(align),
             Custom(T, align))

\* alloc_array_align / copy_slice_align / alloc_array_align_uninit
alloc_array_align_uninit(T, len, align) ==
    IF unsupported_type(T)
    THEN Rejected("UnsupportedType", T.size = 0, ~is_power_of_two(align),
                  Custom(T, align))
    ELSE IF invalid_alignment(align)
    THEN Rejected("InvalidAlignment", T.size = 0, ~is_power_of_two(align),
                  Custom(T, align))
    ELSE Raw(AlignTo(LayoutArray(T, len), align), T.size = 0, ~is_power_of_two(align),
             Custom(T, align))

\* A builder whose assert failed has dropped the arena.
Alive == last.outcome # "Dropped"

AllocWithin(bound) ==
    Alive /\ Len(spans) < bound /\ \E T \in Types : alloc_uninit(T)

AllocArrayWithin(bound) ==
    Alive /\ Len(spans) < bound /\ \E T \in Types, len \in Lens : alloc_array_uninit(T, len)

AllocAlignWithin(bound) ==
    Alive /\ Len(spans) < bound /\ \E T \in Types, align \in Aligns : alloc_align_uninit(T, align)

AllocArrayAlignWithin(bound) ==
    Alive /\ Len(spans) < bound /\ \E T \in Types, len \in Lens, align \in Aligns :
        alloc_array_align_uninit(T, len, align)

Alloc == AllocWithin(MaxAllocs)
AllocArray == AllocArrayWithin(MaxAllocs)
AllocAlign == AllocAlignWithin(MaxAllocs)
AllocArrayAlign == AllocArrayAlignWithin(MaxAllocs)

\* Mutant of cleared: the allocated counter is not reset.
cleared_keeps_allocated ==
    [blocks |-> <<>>, occupied |-> 0, allocated |-> stat_space_allocated]

\* clear / clear_unchecked: what it leaves of the block list and the counters.
cleared == [blocks |-> <<>>, occupied |-> 0, allocated |-> 0]

Clear ==
    /\ Alive
    /\ blocks' = cleared.blocks
    /\ stat_space_occupied' = cleared.occupied
    /\ stat_space_allocated' = cleared.allocated
    /\ spans' = <<>>
    /\ last' = Other("clear", "ok")
    /\ UNCHANGED config

\* A builder method takes the arena by value: when its assert fails the
\* arena is dropped with everything it owns.
Dropped(op) ==
    /\ blocks' = <<>>
    /\ stat_space_occupied' = 0
    /\ stat_space_allocated' = 0
    /\ spans' = <<>>
    /\ last' = Other(op, "Dropped")
    /\ UNCHANGED config

with_block_size_ok(block_size) == block_size > 0 /\ blocks = <<>>

WithBlockSize ==
    /\ Alive
    /\ \E block_size \in BlockSizeArgs :
         IF with_block_size_ok(block_size)
         THEN /\ min_block_size' = block_size
              /\ last' = Other("with_block_size", "ok")
              /\ UNCHANGED <<blocks, growth_strategy, max_waste_percentage,
                             stat_space_occupied, stat_space_allocated, spans>>
         ELSE Dropped("with_block_size")

with_max_waste_percentage_ok(mwp) == mwp > 0 /\ mwp <= 100

WithMaxWastePercentage ==
    /\ Alive
    /\ \E mwp \in WasteArgs :
         IF with_max_waste_percentage_ok(mwp)
         THEN /\ max_waste_percentage' = mwp
              /\ last' = Other("with_max_waste_percentage", "ok")
              /\ UNCHANGED <<blocks, min_block_size, growth_strategy,
                             stat_space_occupied, stat_space_allocated, spans>>
         ELSE Dropped("with_max_waste_percentage")

WithGrowthStrategy ==
    /\ Alive
    /\ \E gs \in StrategyArgs :
         /\ growth_strategy' = gs
         /\ last' = Other("with_growth_strategy", "ok")
         /\ UNCHANGED <<blocks, min_block_size, max_waste_percentage,
                        stat_space_occupied, stat_space_allocated, spans>>

\* Arena::new()
new ==
    [blocks |-> <<>>, min_block_size |-> 1024, growth_strategy |-> Constant,
     max_waste_percentage |-> 20, stat_space_occupied |-> 0,
     stat_space_allocated |-> 0]

\* Arena::default(), derived: every field is its type's default.
default ==
    [blocks |-> <<>>, min_block_size |-> 0, growth_strategy |-> Constant,
     max_waste_percentage |-> 0, stat_space_occupied |-> 0,
     stat_space_allocated |-> 0]

Init ==
    /\ \E ctor \in {"new", "default"} :
         LET arena == IF ctor = "new" THEN new ELSE default
         IN  /\ blocks = arena.blocks
             /\ min_block_size = arena.min_block_size
             /\ growth_strategy = arena.growth_strategy
             /\ max_waste_percentage = arena.max_waste_percentage
             /\ stat_space_occupied = arena.stat_space_occupied
             /\ stat_space_allocated = arena.stat_space_allocated
             /\ last = Other(ctor, "ok")
    /\ spans = <<>>

\* Constructing an arena anew (the previous one, if any, is dropped).
Construct(ctor, arena) ==
    /\ blocks' = arena.blocks
    /\ min_block_size' = arena.min_block_size
    /\ growth_strategy' = arena.growth_strategy
    /\ max_waste_percentage' = arena.max_waste_percentage
    /\ stat_space_occupied' = arena.stat_space_occupied
    /\ stat_space_allocated' = arena.stat_space_allocated
    /\ spans' = <<>>
    /\ last' = Other(ctor, "ok")

New == Construct("new", new)

Default == Construct("default", default)

Next ==
    \/ Alloc
    \/ AllocArray
    \/ AllocAlign
    \/ AllocArrayAlign
    \/ Clear
    \/ WithBlockSize
    \/ WithMaxWastePercentage
    \/ WithGrowthStrategy
    \/ New
    \/ Default

Spec == Init /\ [][Next]_vars

-----------------------------------------------------------------------------
(* The scenario of the test big_alloc_01: Arena::new().with_block_size(64), *)
(* then allocation requests only (and clear).                               *)

BigAllocInit ==
    /\ blocks = <<>>
    /\ min_block_size = 64
    /\ growth_strategy = new.growth_strategy
    /\ max_waste_percentage = new.max_waste_percentage
    /\ stat_space_occupied = 0
    /\ stat_space_allocated = 0
    /\ spans = <<>>
    /\ last = Other("with_block_size", "ok")

BigAllocNext ==
    \/ AllocWithin(MaxBigAllocs)
    \/ AllocArrayWithin(MaxBigAllocs)
    \/ AllocAlignWithin(MaxBigAllocs)
    \/ AllocArrayAlignWithin(MaxBigAllocs)
    \/ Clear

SpecBigAlloc == BigAllocInit /\ [][BigAllocNext]_vars

-----------------------------------------------------------------------------
(* alignment_offset on its own *)

\* Addresses and alignments handed to alignment_offset: a block's address
\* plus its length, and the alignment of a Layout, always a power of two.
Addrs == 0..MaxAddr
Alignments == {2^k : k \in 0..MaxAlignmentLog}

\* An untouched Arena::new(); `last` holds the arguments of the call about to
\* be made.  addr % alignment < alignment, so the subtraction in
\* alignment_offset cannot wrap whatever the width of usize.
AlignmentOffsetInit ==
    /\ blocks = new.blocks
    /\ min_block_size = new.min_block_size
    /\ growth_strategy = new.growth_strategy
    /\ max_waste_percentage = new.max_waste_percentage
    /\ stat_space_occupied = new.stat_space_occupied
    /\ stat_space_allocated = new.stat_space_allocated
    /\ spans = <<>>
    /\ \E addr \in Addrs, alignment \in Alignments :
         last = [op |-> "arguments", addr |-> addr, alignment |-> alignment,
                 offset |-> 0]

\* The call: `last` holds the arguments and the offset returned.
AlignmentOffset ==
    /\ last.op = "arguments"
    /\ last' = [last EXCEPT !.op = "alignment_offset",
                            !.offset = alignment_offset(last.addr, last.alignment)]
    /\ UNCHANGED <<blocks, config, stat_space_occupied, stat_space_allocated, spans>>

SpecAlignmentOffset == AlignmentOffsetInit /\ [][AlignmentOffset]_vars

-----------------------------------------------------------------------------
(* Vocabulary of the properties *)

\* The arena as one value.
arena ==
    [blocks |-> blocks, min_block_size |-> min_block_size,
     growth_strategy |-> growth_strategy,
     max_waste_percentage |-> max_waste_percentage,
     stat_space_occupied |-> stat_space_occupied,
     stat_space_allocated |-> stat_space_allocated]

BlockById(bs, id) == CHOOSE b \in {bs[i] : i \in DOMAIN bs} : b.id = id

\* The step just taken was an allocation request that reached alloc_raw, or
\* one that was turned away.
AllocStep == last'.op = "alloc"

\* The step just taken was an allocation request that returned a span.
GrantedStep == AllocStep /\ last'.outcome = "ok" /\ Len(spans') = Len(spans) + 1

Overlap(s, t) ==
    /\ s.block = t.block
    /\ s.size > 0 /\ t.size > 0
    /\ s.start < t.start + t.size
    /\ t.start < s.start + s.size

-----------------------------------------------------------------------------
(* Properties *)

\* C1: with no clear in between, the non-empty spans returned so far that
\* live in the same block are pairwise disjoint.
C1_SpansDisjoint ==
    \A i, j \in DOMAIN spans : i < j => ~Overlap(spans[i], spans[j])

\* Two non-empty spans share a block, and a second block exists.
C1_Witness ==
    /\ Len(blocks) >= 2
    /\ \E i, j \in DOMAIN spans :
         /\ i < j
         /\ spans[i].block = spans[j].block
         /\ spans[i].size > 0 /\ spans[j].size > 0

\* C2: the address returned by alloc_raw is a multiple of the alignment of
\* the layout asked for, whatever the size.
C2_ReturnedAddressAligned ==
    (last.op = "alloc" /\ last.outcome = "ok") => last.addr % last.align = 0

\* C3: occupied >= allocated in every reachable state.
C3_OccupiedCoversAllocated == stat_space_occupied >= stat_space_allocated

\* A standalone block and a shared one exist and bytes have been granted in
\* both kinds.
C3_Witness ==
    /\ stat_space_allocated > 256
    /\ \E i \in DOMAIN blocks : ~blocks[i].shared
    /\ Len(blocks) >= 2

\* C4: an allocation request removes no block and changes neither the base
\* address nor the capacity of a block; the spans returned earlier stay what
\* they were and stay inside the filled part of their block.
C4_AllocationKeepsBlocks ==
    [][AllocStep =>
         /\ \A i \in DOMAIN blocks : \E j \in DOMAIN blocks' :
              /\ blocks'[j].id = blocks[i].id
              /\ blocks'[j].addr = blocks[i].addr
              /\ blocks'[j].capacity = blocks[i].capacity
              /\ blocks'[j].len >= blocks[i].len
         /\ SubSeq(spans', 1, Len(spans)) = spans]_vars

\* Three blocks, two of them shared and one standalone, each holding a span:
\* the later two were created while earlier spans were live.
C4_Witness ==
    /\ Len(blocks) = 3
    /\ Len(spans) = 3
    /\ \E i \in DOMAIN blocks : ~blocks[i].shared
    /\ \A i \in DOMAIN blocks : \E k \in DOMAIN spans : spans[k].block = blocks[i].id

\* C5: clear leaves the arena equal to a freshly constructed one given the
\* same configuration: no blocks, both counters 0, configuration unchanged.
C5_ClearIsFresh ==
    [][last'.op = "clear" =>
         arena' = [new EXCEPT !.min_block_size = min_block_size,
                              !.growth_strategy = growth_strategy,
                              !.max_waste_percentage = max_waste_percentage]]_vars

\* A cleared arena whose configuration is not that of Arena::new().
C5_Witness ==
    /\ last.op = "clear"
    /\ min_block_size = 10
    /\ growth_strategy.kind = "Percentage"
    /\ max_waste_percentage = 100

\* The arena's blocks and counters are what they were before the step.
ArenaUntouched ==
    UNCHANGED <<blocks, config, stat_space_occupied, stat_space_allocated, spans>>

\* C6: a typed allocation call with a zero-sized element type fails, whatever
\* the count and the alignment, and leaves blocks, occupied and allocated as
\* they were.
C6_ZeroSizedTypeRejected ==
    [][(AllocStep /\ last'.zst) =>
         (last'.outcome = "UnsupportedType" /\ ArenaUntouched)]_vars

\* A zero-sized element type was turned away by an arena that holds blocks.
C6_Witness ==
    /\ last.op = "alloc" /\ last.zst
    /\ last.outcome = "UnsupportedType"
    /\ Len(blocks) >= 2
    /\ stat_space_allocated > 0

\* C7: a custom-alignment call whose alignment is 0 or not a power of two
\* fails and leaves blocks, occupied and allocated as they were.
C7_MalformedAlignmentRejected ==
    [][(AllocStep /\ last'.malformed) =>
         (/\ last'.outcome \in {"InvalidAlignment", "UnsupportedType"}
          /\ ArenaUntouched)]_vars

\* A malformed alignment was turned away by an arena that is still empty.
C7_Witness ==
    /\ last.op = "alloc" /\ last.malformed /\ ~last.zst
    /\ last.outcome = "InvalidAlignment"
    /\ blocks = <<>>
    /\ stat_space_occupied = 0

\* The step just taken was a zero-length array request for an element type
\* that is not zero-sized.
ZeroLengthStep ==
    AllocStep /\ ~last'.zst /\ ~last'.malformed /\ last'.size = 0

\* C8: a zero-length array request for a non-zero-sized element type succeeds
\* in any state and returns the empty span at the front block's base address;
\* the front block's length and the allocated counter are what they were (a
\* front block created by the call is empty).
C8_ZeroLengthArray ==
    [][ZeroLengthStep =>
         /\ last'.outcome = "ok"
         /\ last'.addr = Head(blocks').addr
         /\ spans' = Append(spans, [block |-> Head(blocks').id, start |-> 0, size |-> 0])
         /\ stat_space_allocated' = stat_space_allocated
         /\ blocks # <<>> => blocks' = blocks
         /\ blocks = <<>> => (Len(blocks') = 1 /\ Head(blocks').len = 0)]_vars

\* A zero-length request was served by a partly filled front block that is
\* not the arena's only block.
C8_Witness ==
    /\ last.op = "alloc" /\ last.path = "zero"
    /\ Len(blocks) >= 2
    /\ Head(blocks).len > 0
    /\ last.addr = Head(blocks).addr

\* A small allocation: at most 8 bytes (the layouts of the model are aligned
\* to 4 or 8).
Small(s) == s.size \in 1..8

\* The scenario of C9: small A and B, an oversized C that landed in a
\* standalone block, then a small D.
C9_Scenario ==
    /\ min_block_size = 64
    /\ growth_strategy.kind = "Constant"
    /\ max_waste_percentage = 20
    /\ Len(spans) >= 4
    /\ Small(spans[1]) /\ Small(spans[2])
    /\ spans[3].size > min_block_size
    /\ ~BlockById(blocks, spans[3].block).shared
    /\ Small(spans[4])

\* C9, as the claim states it: D is placed in a newly created shared block,
\* neither the original 64-byte block nor the standalone block.
C9_DInNewSharedBlock ==
    C9_Scenario =>
        /\ spans[4].block \notin {spans[1].block, spans[3].block}
        /\ BlockById(blocks, spans[4].block).shared

\* C9, amended (A, B and D of size and alignment at most 8): D is placed by
\* the fast path in the original 64-byte block,
\* which is still the front block and also holds A and B; serving D creates
\* no block.
C9_DInOriginalBlock ==
    C9_Scenario =>
        /\ spans[4].block = spans[1].block
        /\ spans[2].block = spans[1].block
        /\ Head(blocks).id = spans[1].block
        /\ Head(blocks).capacity = 64
        /\ Len(spans) = 4 => Len(blocks) = 2

\* A, B, C and D have been served.
C9_Witness == C9_Scenario /\ Len(spans) = 4 /\ last.path = "fast"

\* C10: a standalone block is created with capacity size + alignment - 1 and
\* leaves the front block as it was; it holds one allocation for the rest of
\* its life; under the Constant strategy every request larger than
\* min_block_size is served by a standalone block.
C10_StandaloneBlocks ==
    /\ [][(GrantedStep /\ last'.path = "standalone") =>
            /\ blocks'[Len(blocks')].capacity = last'.size + last'.align - 1
            /\ ~blocks'[Len(blocks')].shared
            /\ blocks # <<>> => Head(blocks') = Head(blocks)]_vars
    /\ [](\A i \in DOMAIN blocks :
            ~blocks[i].shared =>
                Cardinality({k \in DOMAIN spans : spans[k].block = blocks[i].id}) = 1)
    /\ []((/\ last.op = "alloc" /\ ~last.zst /\ ~last.malformed
           /\ growth_strategy.kind = "Constant"
           /\ last.size > min_block_size)
          => (last.outcome = "ok" /\ last.path = "standalone"))

\* ---------------------------------------------------------------------------
\* C11. With max_waste_percentage = 100 waste minimisation is disabled: the
\* waste percentage min(w1, w2) computed from the front block and the arena
\* totals is at most 100 in every state where it is defined, so a request that
\* misses the front block and satisfies size + alignment <= next_shared_size
\* gets a new shared block, never a standalone one.
WasteDefined ==
    /\ blocks # <<>>
    /\ Head(blocks).capacity > 0
    /\ stat_space_occupied > 0

WasteAtMost100 ==
    WasteDefined =>
        waste_percentage(Head(blocks), stat_space_occupied, stat_space_allocated) <= 100

\* A granted request that missed the front block and created a block.
MissStep ==
    /\ AllocStep
    /\ last'.outcome = "ok"
    /\ last'.path \in {"shared", "standalone"}

C11_WasteDisabledAt100 ==
    /\ []WasteAtMost100
    /\ [][(/\ MissStep
           /\ max_waste_percentage = 100
           /\ last'.size + last'.align
                <= next_shared_size(occupied_with_first_block(blocks)))
          => last'.path = "shared"]_vars

\* A miss at max_waste_percentage = 100 that left more than the default 20
\* percent of both the former front block and the arena unused, and was served
\* by a new shared block.
C11_Witness ==
    /\ max_waste_percentage = 100
    /\ last.op = "alloc" /\ last.outcome = "ok" /\ last.path = "shared"
    /\ Len(blocks) >= 2
    /\ LET old == blocks[2]
           occupied == stat_space_occupied - Head(blocks).capacity
           allocated == stat_space_allocated - last.size
       IN  /\ old.capacity > 0
           /\ waste_percentage(old, occupied, allocated) > 20

\* ---------------------------------------------------------------------------
\* C12. For every allocation method with an alignment parameter, the alignment
\* used for the request is max(natural alignment of T, requested alignment),
\* and the returned address is a multiple of both the natural and the
\* requested alignment.
CustomGranted == last.op = "alloc" /\ last.outcome = "ok" /\ last.custom

C12_CustomAlignment ==
    CustomGranted =>
        /\ last.align = Max(last.nat, last.req)
        /\ last.addr % last.nat = 0
        /\ last.addr % last.req = 0

\* The part of C12 that the zero-size path of alloc_raw does not break: the
\* layout handed to alloc_raw carries the larger of the two alignments, and a
\* request of non-zero size is placed at a multiple of both.
C12_NonEmptyCustomAlignment ==
    CustomGranted =>
        /\ last.align = Max(last.nat, last.req)
        /\ last.size > 0 => last.addr % last.nat = 0 /\ last.addr % last.req = 0

\* ---------------------------------------------------------------------------
\* C13. Every arena obtained from Arena::new, Arena::default and any chain of
\* with_block_size / with_max_waste_percentage / with_growth_strategy has
\* min_block_size > 0 and 1 <= max_waste_percentage <= 100.
C13_ConfigInRange ==
    Alive =>
        /\ min_block_size > 0
        /\ 1 <= max_waste_percentage
        /\ max_waste_percentage <= 100

\* ---------------------------------------------------------------------------
\* C14. The configuration is immutable once the arena is in use: no operation
\* on an arena that already holds at least one block changes min_block_size,
\* max_waste_percentage or growth_strategy; a builder call on such an arena is
\* rejected. (Arena::new and Arena::default make another arena.)
SameArenaStep == last'.op \notin {"new", "default"}

C14_ConfigImmutableInUse ==
    [][(blocks # <<>> /\ SameArenaStep) => config' = config]_vars

\* ---------------------------------------------------------------------------
\* C15. A frozen block (a former front block superseded by a new shared block,
\* or a block created standalone) never again receives a bump allocation:
\* until the next reset its length keeps its value and no span returned later
\* lies in it, even if its unused tail could hold the request.
Frozen(b) == ~b.shared \/ b.id # Head(blocks).id

\* The step emptied the arena or replaced it.
ResetStep == last'.op \in {"clear", "new", "default"} \/ last'.outcome = "Dropped"

C15_FrozenBlocksStayFrozen ==
    [][~ResetStep =>
         \A i \in DOMAIN blocks :
            Frozen(blocks[i]) =>
               /\ \E j \in DOMAIN blocks' : blocks'[j] = blocks[i]
               /\ GrantedStep => spans'[Len(spans')].block # blocks[i].id]_vars

\* A request of non-zero size was granted in a block created later although a
\* frozen block had room for it behind its length.
C15_Witness ==
    /\ last.op = "alloc" /\ last.outcome = "ok" /\ last.size > 0
    /\ spans # <<>>
    /\ \E i \in DOMAIN blocks :
         /\ Frozen(blocks[i])
         /\ blocks[i].id < spans[Len(spans)].block
         /\ fits_in_current(blocks[i], last.size, last.align)

\* ---------------------------------------------------------------------------
\* C16. Under Percentage(p) the size computed for the next shared block is
\* max(min_block_size, a - (a mod min_block_size)) with
\* a = floor(occupied * p / 100): checked on every shared block created by a
\* miss, against the occupied counter the miss computed with.
PercentageOfOccupied(occupied) ==
    LET a == (occupied * growth_strategy.perc) \div 100
    IN  Max(min_block_size, a - (a % min_block_size))

C16_PercentageOfOccupied ==
    [][(/\ MissStep
        /\ last'.path = "shared"
        /\ growth_strategy.kind = "Percentage")
       => Head(blocks').capacity
            = PercentageOfOccupied(occupied_with_first_block(blocks))]_vars

\* ---------------------------------------------------------------------------
\* C17. Under both growth strategies every shared block (every block that is
\* or has been the front block, the initial one included) has a capacity that
\* is a positive multiple of min_block_size; under Constant it is exactly
\* min_block_size.
C17_SharedBlockCapacity ==
    \A i \in DOMAIN blocks :
        blocks[i].shared =>
            /\ min_block_size > 0
            /\ blocks[i].capacity > 0
            /\ blocks[i].capacity % min_block_size = 0
            /\ growth_strategy.kind = "Constant" => blocks[i].capacity = min_block_size

\* C17 on the arenas that the defects recorded under C13 and C14 do not
\* touch: min_block_size > 0, and the growth strategy of the state is the one
\* the blocks were created under (no builder call changed it since).
C17_SharedBlockCapacityInRange ==
    [][(min_block_size > 0 /\ AllocStep) =>
         \A j \in DOMAIN blocks' :
            (blocks'[j].shared /\ \A i \in DOMAIN blocks : blocks[i].id # blocks'[j].id)
            => /\ blocks'[j].capacity > 0
               /\ blocks'[j].capacity % min_block_size = 0
               /\ growth_strategy.kind = "Constant"
                    => blocks'[j].capacity = min_block_size]_vars

\* ---------------------------------------------------------------------------
\* C18. The occupied counter is the sum of the capacities of the blocks in
\* the block list, and the allocated counter is the sum of the sizes of the
\* requests granted since construction or the last clear (no padding; a
\* zero-size request adds 0).
RECURSIVE SumOfCapacities(_)
SumOfCapacities(bs) ==
    IF bs = <<>> THEN 0 ELSE Head(bs).capacity + SumOfCapacities(Tail(bs))

RECURSIVE SumOfSizes(_)
SumOfSizes(ss) ==
    IF ss = <<>> THEN 0 ELSE Head(ss).size + SumOfSizes(Tail(ss))

C18_CountersAreSums ==
    /\ stat_space_occupied = SumOfCapacities(blocks)
    /\ stat_space_allocated = SumOfSizes(spans)

\* Shared and standalone blocks, a padded span and an empty span.
C18_Witness ==
    /\ Len(blocks) >= 3
    /\ \E i \in DOMAIN blocks : ~blocks[i].shared
    /\ \E k \in DOMAIN spans : spans[k].size = 0
    /\ \E k \in DOMAIN spans : spans[k].size > 0 /\ spans[k].start > 0
    /\ stat_space_allocated > 0

\* ---------------------------------------------------------------------------
\* C19. A request that misses the front block creates a shared block (the new
\* front block, of capacity next_shared_size) if and only if
\* size + alignment <= next_shared_size and
\* min(wasteHead, wasteArena) <= max_waste_percentage, with
\* wasteHead = (capacity - len) * 100 / capacity of the front block and
\* wasteArena = (occupied - allocated) * 100 / occupied taken before the new
\* block is added; otherwise it creates a standalone block.

\* A request of non-zero size that reached alloc_raw and was not served by
\* the front block.
FrontMissStep ==
    /\ AllocStep
    /\ ~last'.zst /\ ~last'.malformed
    /\ last'.size > 0
    /\ last'.path # "fast"

\* The front block the request was tried on: the first block is created by
\* the same call when the arena was empty.
TriedBlock == IF blocks = <<>> THEN BlockById(blocks', 1) ELSE Head(blocks)

SharedExpected ==
    LET occupied == occupied_with_first_block(blocks)
        wasteHead == ((TriedBlock.capacity - TriedBlock.len) * 100) \div TriedBlock.capacity
        wasteArena == ((occupied - stat_space_allocated) * 100) \div occupied
    IN  /\ last'.size + last'.align <= next_shared_size(occupied)
        /\ Min(wasteHead, wasteArena) <= max_waste_percentage

\* The block the step created, and what the step did with it.
CreatedBlock == BlockById(blocks', Len(blocks'))

CreatedShared ==
    /\ CreatedBlock.shared
    /\ Head(blocks') = CreatedBlock
    /\ CreatedBlock.capacity = next_shared_size(occupied_with_first_block(blocks))

CreatedStandalone ==
    /\ ~CreatedBlock.shared
    /\ blocks'[Len(blocks')] = CreatedBlock
    /\ Head(blocks') = TriedBlock
    /\ CreatedBlock.capacity = last'.size + last'.align - 1

SharedOrStandalone ==
    /\ last'.outcome = "ok"
    /\ Len(blocks') = Max(Len(blocks), 1) + 1
    /\ spans'[Len(spans')].block = CreatedBlock.id
    /\ IF SharedExpected THEN CreatedShared ELSE CreatedStandalone

C19_SharedIffFitsAndLowWaste ==
    [][FrontMissStep => SharedOrStandalone]_vars

\* C19 on the arenas that the defect recorded under C13 does not touch.
C19_SharedIffFitsAndLowWasteInRange ==
    [][(FrontMissStep /\ min_block_size > 0) => SharedOrStandalone]_vars

\* ---------------------------------------------------------------------------
\* C20. Every block satisfies len <= capacity, and every span returned lies
\* inside the filled part of its block, start + size <= len <= capacity;
\* this includes the first span of a newly created shared or standalone
\* block, whatever the block's base address (padding up to alignment - 1).
C20_SpansWithinBlocks ==
    /\ \A i \in DOMAIN blocks : blocks[i].len <= blocks[i].capacity
    /\ \A k \in DOMAIN spans :
         LET b == BlockById(blocks, spans[k].block)
         IN  /\ spans[k].start >= 0
             /\ spans[k].start + spans[k].size <= b.len
             /\ b.len <= b.capacity

\* A standalone block filled to its capacity by the largest padding
\* (alignment - 1) and a later shared block whose first span is padded too.
C20_Witness ==
    /\ \E i \in DOMAIN blocks :
         /\ ~blocks[i].shared
         /\ blocks[i].len = blocks[i].capacity
         /\ \E k \in DOMAIN spans :
              /\ spans[k].block = blocks[i].id
              /\ spans[k].start > 0
              /\ spans[k].start + spans[k].size = blocks[i].capacity
    /\ \E i \in DOMAIN blocks :
         /\ blocks[i].shared /\ blocks[i].id > 1
         /\ \E k \in DOMAIN spans :
              spans[k].block = blocks[i].id /\ spans[k].start > 0

\* ---------------------------------------------------------------------------
\* C21. When a request of non-zero size fits in the front block
\* (candidateStart + size <= capacity, candidateStart being the block's length
\* plus the padding to the alignment), the call creates no block, leaves
\* occupied and every other block unchanged, sets the front block's length to
\* candidateStart + size, adds exactly size to allocated and returns the span
\* at offset candidateStart of the front block.  On an empty arena the front
\* block is the initial block the call has just created (C22), and occupied
\* is compared with its value after that creation.
FrontAtBump ==
    IF blocks = <<>> THEN [BlockById(blocks', 1) EXCEPT !.len = 0] ELSE Head(blocks)

OthersAtBump == IF blocks = <<>> THEN <<>> ELSE Tail(blocks)

OccupiedAtBump ==
    IF blocks = <<>> THEN stat_space_occupied + FrontAtBump.capacity
    ELSE stat_space_occupied

\* The smallest offset that brings addr to a multiple of alignment.
PaddingTo(addr, alignment) ==
    CHOOSE o \in 0..(alignment - 1) :
        /\ (addr + o) % alignment = 0
        /\ \A p \in 0..(alignment - 1) : (addr + p) % alignment = 0 => o <= p

candidateStart ==
    FrontAtBump.len + PaddingTo(FrontAtBump.addr + FrontAtBump.len, last'.align)

\* A request of non-zero size that reached alloc_raw.
NonEmptyRequestStep ==
    /\ AllocStep
    /\ ~last'.zst /\ ~last'.malformed
    /\ last'.size > 0

C21_FastPathEffect ==
    [][(/\ NonEmptyRequestStep
        /\ candidateStart + last'.size <= FrontAtBump.capacity)
       => /\ last'.outcome = "ok"
          /\ Len(blocks') = Max(Len(blocks), 1)
          /\ stat_space_occupied' = OccupiedAtBump
          /\ Tail(blocks') = OthersAtBump
          /\ Head(blocks') = [FrontAtBump EXCEPT !.len = candidateStart + last'.size]
          /\ stat_space_allocated' = stat_space_allocated + last'.size
          /\ spans' = Append(spans, [block |-> FrontAtBump.id,
                                     start |-> candidateStart,
                                     size |-> last'.size])
          /\ last'.addr = FrontAtBump.addr + candidateStart]_vars

\* A request served by the front block behind an earlier span, after padding,
\* while the arena holds another block.
C21_Witness ==
    /\ last.op = "alloc" /\ last.outcome = "ok" /\ last.path = "fast"
    /\ Len(blocks) >= 2
    /\ Len(spans) >= 2
    /\ LET s == spans[Len(spans)]
       IN  /\ s.block = Head(blocks).id
           /\ Head(blocks).len = s.start + s.size
           /\ \E k \in 1..(Len(spans) - 1) :
                /\ spans[k].block = s.block
                /\ spans[k].size > 0
                /\ spans[k].start + spans[k].size < s.start

\* ---------------------------------------------------------------------------
\* C22. Blocks are created lazily: a freshly constructed or freshly cleared
\* arena has no blocks and occupied = 0; the first allocation request that
\* reaches alloc_raw, of any size (0 included), creates exactly one initial
\* front block of capacity min_block_size and adds min_block_size to occupied
\* before the request is served; from then on a front block exists until the
\* next reset.
FreshOrCleared == last.op \in {"new", "default", "clear"}

EmptyWhenFresh == FreshOrCleared => (blocks = <<>> /\ stat_space_occupied = 0)

\* A request with a valid layout: it gets past the asserts of the typed
\* methods and reaches alloc_raw.
ValidRequestStep == AllocStep /\ ~last'.zst /\ ~last'.malformed

\* The blocks of the next state other than the initial one.
LaterBlocks == SelectSeq(blocks', LAMBDA b : b.id # 1)

InitialBlockCreated ==
    LET initial == BlockById(blocks', 1)
    IN  /\ blocks' # <<>>
        /\ Len(SelectSeq(blocks', LAMBDA b : b.id = 1)) = 1
        /\ initial.capacity = min_block_size
        /\ initial.shared
        /\ Len(LaterBlocks) <= 1
        /\ stat_space_occupied' = min_block_size + SumOfCapacities(LaterBlocks)
        \* a later block is created only for a request the initial block
        \* could not serve
        /\ LaterBlocks # <<>> =>
              /\ initial.len = 0
              /\ last'.size > 0
              /\ ~fits_in_current(initial, last'.size, last'.align)

C22_LazyInitialBlock ==
    /\ []EmptyWhenFresh
    /\ [][(ValidRequestStep /\ blocks = <<>>) => InitialBlockCreated]_vars
    /\ [][(blocks # <<>> /\ ~ResetStep) => blocks' # <<>>]_vars

\* The first request on an arena configured away from the defaults was a
\* zero-length array: it created the initial block and nothing else.
C22_Witness ==
    /\ last.op = "alloc" /\ last.path = "zero"
    /\ Len(spans) = 1
    /\ min_block_size = 10
    /\ blocks = <<[id |-> 1, addr |-> 17, capacity |-> 10, len |-> 0, shared |-> TRUE]>>
    /\ stat_space_occupied = 10
    /\ stat_space_allocated = 0

\* ---------------------------------------------------------------------------
\* C23. For every arena obtainable through the public interface and every
\* request with a valid layout, the slow path never divides by zero: when the
\* waste percentages are computed the front block's capacity and occupied are
\* > 0, and when the Percentage size is computed min_block_size is > 0.

\* A request of non-zero size that does not fit the front block: alloc_raw
\* takes its else branch.
SlowPathStep ==
    /\ NonEmptyRequestStep
    /\ ~(candidateStart + last'.size <= FrontAtBump.capacity)

C23_NoDivisionByZero ==
    [][SlowPathStep =>
         /\ last'.outcome # "DivideByZero"
         /\ growth_strategy.kind = "Percentage" => min_block_size > 0
         /\ FrontAtBump.capacity > 0
         /\ OccupiedAtBump > 0]_vars

\* C23 on the arenas that the defect recorded under C13 does not touch.
C23_NoDivisionByZeroInRange ==
    [][(SlowPathStep /\ min_block_size > 0) =>
         /\ last'.outcome # "DivideByZero"
         /\ FrontAtBump.capacity > 0
         /\ OccupiedAtBump > 0]_vars

\* ---------------------------------------------------------------------------
\* C24. For every address and every alignment that is a power of two > 0,
\* alignment_offset returns the smallest non-negative offset such that
\* (address + offset) mod alignment = 0, and that offset is strictly less
\* than the alignment.
C24_SmallestOffset ==
    last.op = "alignment_offset" =>
        /\ last.offset >= 0
        /\ last.offset < last.alignment
        /\ (last.addr + last.offset) % last.alignment = 0
        /\ \A o \in 0..(last.offset - 1) : (last.addr + o) % last.alignment # 0

\* An address one past a multiple of the largest alignment: the offset is the
\* largest there is, alignment - 1.
C24_Witness ==
    /\ last.op = "alignment_offset"
    /\ last.alignment = 2^MaxAlignmentLog
    /\ last.addr % last.alignment = 1
    /\ last.offset = last.alignment - 1

====
